---- MODULE Spec2Model ----
(***************************************************************************)
(* MindMate (src/app.py): the SQLite store (users, journals, habits,       *)
(* habit_logs, chats), the habit-log upsert, the personalization context   *)
(* builder and the chat orchestrator.                                      *)
(*                                                                         *)
(* Representation.                                                         *)
(*  - A table is the sequence of its rows; a row's id is its index         *)
(*    (INTEGER PRIMARY KEY AUTOINCREMENT, and no statement deletes rows).  *)
(*  - A calendar date is the number of its day; the ISO strings the code   *)
(*    compares ("YYYY-MM-DD") are ordered as the days are.                 *)
(*  - A text is the sequence of its pieces (characters, or fixed fragments *)
(*    of the program's literals); concatenation is \o.                     *)
(*  - A nullable value is <<>> (NULL / NaN) or <<v>>.                      *)
(***************************************************************************)
EXTENDS Integers, Sequences, FiniteSets, TLC

VARIABLES
    users,          \* table users: rows [email, username]
    signup_msg,     \* what signup_ui last showed: <<>> or <<ok, message>>
    habits,         \* table habits: rows [user_id, name]
    habit_logs,     \* table habit_logs: rows [habit_id, log_date, completed]
    today,          \* datetime.utcnow().date(), as a day number
    latest,         \* history: (habit_id, log_date) -> value of the last committed toggle
    tpc,            \* per caller of toggle_habit_for_date: position in the call
    targs,          \* per caller: the call's arguments [hid, d, c]
    rowcount,       \* per caller: updated.rowcount
    writer,         \* the connection holding SQLite's write lock (0: none)
    lastdone,       \* history: the caller whose call ended last, and how
    chats,          \* table chats: rows [user_id, role, content]
    client,         \* module-level client: "ok", or why it is None
    cpc,            \* chat_tab's position in the turn
    cur_user,       \* st.session_state["user"].id of the turn
    user_text,      \* user_msg.strip() of the turn
    messages,       \* the sequence handed to client.chat.completions.create
    reply,          \* what ask_ai returned
    shown,          \* what chat_tab displayed: the reply and the recent conversation
    chats0,         \* history: the chats table when the turn began
    outcome,        \* history: what the collaborator did in the turn
    nturns,         \* history: the turns begun in this run
    journals,       \* table journals: rows [user_id, entry, created_at]
    tod,            \* datetime.utcnow(): the time of day, after the date `today`
    grp,            \* a habit-name group of build_personal_context: its completed column
    rate            \* the rate computed for grp: <<>> or <<rate>>

userVars   == <<users, signup_msg>>
habitVars  == <<habits, habit_logs, today, latest>>
toggleVars == <<tpc, targs, rowcount, writer, lastdone>>
chatVars   == <<chats, client, cpc, cur_user, user_text, messages, reply, shown, chats0,
               outcome, nturns>>
rateVars   == <<grp, rate>>
journalVars == <<journals, tod>>
vars == <<userVars, habitVars, toggleVars, chatVars, rateVars, journalVars>>

(***************************************************************************)
(* Bounds of the model.                                                    *)
(***************************************************************************)
MaxHabits  == 2      \* rows of habits, and the habit ids toggled
MaxLogs    == 2      \* rows of habit_logs
MaxDay     == 15     \* the clock of the habits tab stops here
MaxDate    == 2      \* the dates passed to toggle_habit_for_date called directly
MaxGroup   == 8      \* rows of one habit-name group
MaxPrior   == 5      \* chat turns already stored when the run begins
MaxTurns   == 2      \* chat turns of the run
MaxLimit   == 12     \* limits passed to load_recent_chat

UserIds    == {1, 2}
HabitNames == <<"walk", "water">>      \* in the order groupby("name") sorts them
Callers    == {1, 2}

NULL == <<>>
Some(v) == <<v>>
fillna(x, v) == IF x = NULL THEN v ELSE x[1]

Range(s) == {s[i] : i \in DOMAIN s}

RECURSIVE Join(_, _)
\* sep.join(items), each item a text
Join(items, sep) ==
    IF items = <<>> THEN <<>>
    ELSE IF Len(items) = 1 THEN items[1]
    ELSE items[1] \o sep \o Join(Tail(items), sep)

(***************************************************************************)
(* Habits.                                                                 *)
(***************************************************************************)
\* create_habit: INSERT INTO habits
create_habit(uid, name) == Append(habits, [user_id |-> uid, name |-> name])

\* list_habits: the ids of the user's habits
list_habits(uid) == {h \in DOMAIN habits : habits[h].user_id = uid}

\* UPDATE habit_logs SET completed=:c WHERE habit_id=:hid AND log_date=:d
MatchesWrong(row, hid, d) == row.habit_id = hid
Matches(row, hid, d) == row.habit_id = hid /\ row.log_date = d

UpdateLogs(logs, hid, d, c) ==
    [i \in DOMAIN logs |->
        IF Matches(logs[i], hid, d) THEN [logs[i] EXCEPT !.completed = c] ELSE logs[i]]

\* updated.rowcount: the rows the WHERE clause matched
UpdateCount(logs, hid, d) == Cardinality({i \in DOMAIN logs : Matches(logs[i], hid, d)})

\* INSERT OR IGNORE INTO habit_logs, under UNIQUE(habit_id, log_date)
InsertOrIgnore(logs, hid, d, c) ==
    IF \E i \in DOMAIN logs : logs[i].habit_id = hid /\ logs[i].log_date = d
    THEN logs
    ELSE Append(logs, [habit_id |-> hid, log_date |-> d, completed |-> c])

\* 1 if completed else 0
Bit(c) == IF c THEN 1 ELSE 0

\* toggle_habit_for_date, run by one connection from BEGIN to COMMIT
toggle_habit_for_date(logs, hid, d, completed) ==
    IF UpdateCount(logs, hid, d) = 0
    THEN InsertOrIgnore(UpdateLogs(logs, hid, d, Bit(completed)), hid, d, Bit(completed))
    ELSE UpdateLogs(logs, hid, d, Bit(completed))

RECURSIVE JoinFrom(_, _)
\* habits h LEFT JOIN habit_logs l ON h.id = l.habit_id WHERE h.user_id = :uid,
\* from habit id h on: a habit with no log gives one row of NULLs
JoinFrom(h, uid) ==
    IF h > Len(habits) THEN <<>>
    ELSE LET mine == SelectSeq(habit_logs, LAMBDA l : l.habit_id = h)
             row(l) == [habit_id |-> h, name |-> habits[h].name,
                        log_date |-> Some(l.log_date), completed |-> Some(l.completed)]
             rows == IF mine = <<>>
                     THEN << [habit_id |-> h, name |-> habits[h].name,
                              log_date |-> NULL, completed |-> NULL] >>
                     ELSE [i \in DOMAIN mine |-> row(mine[i])]
         IN (IF habits[h].user_id = uid THEN rows ELSE <<>>) \o JoinFrom(h + 1, uid)

\* get_habit_logs: the dataframe, as the sequence of its rows
get_habit_logs(uid, days) ==
    LET since == today - days
    IN SelectSeq(JoinFrom(1, uid),
                 LAMBDA r : r.log_date = NULL \/ r.log_date[1] >= since)

(***************************************************************************)
(* The context builder's habit section.                                    *)
(***************************************************************************)
HabitDays == 14     \* get_habit_logs(user_id, days=14)
RateDays  == 7      \* last7 = utcnow - timedelta(days=7)

RECURSIVE SumCompleted(_)
\* grp["completed"].fillna(0).sum()
SumCompleted(col) ==
    IF col = <<>> THEN 0 ELSE fillna(col[1], 0) + SumCompleted(Tail(col))

\* round(a / b) of Python 3 for a >= 0, b > 0: to nearest, a tie to the even integer
PyRound(a, b) ==
    LET q == a \div b
        r == a % b
    IN IF 2 * r < b THEN q
       ELSE IF 2 * r > b THEN q + 1
       ELSE IF q % 2 = 0 THEN q ELSE q + 1

Max(a, b) == IF a >= b THEN a ELSE b

\* rate = int(round(100 * comp / max(n, 1))) for a group's completed column
GroupRate(col) == PyRound(100 * SumCompleted(col), Max(Len(col), 1))

\* the rows of the dataframe that pass  log_date.fillna(last7) >= last7
Last7Rows(df) ==
    LET last7 == today - RateDays
    IN SelectSeq(df, LAMBDA r : fillna(r.log_date, last7) >= last7)

RECURSIVE RateItems(_, _)
\* rates, for the groups of sub.groupby("name") from name number k on
RateItems(sub, k) ==
    IF k > Len(HabitNames) THEN <<>>
    ELSE LET g == SelectSeq(sub, LAMBDA r : r.name = HabitNames[k])
             col == [i \in DOMAIN g |-> g[i].completed]
         IN (IF g = <<>> THEN <<>>
             ELSE << <<HabitNames[k], ": ", ToString(GroupRate(col)), "%">> >>)
            \o RateItems(sub, k + 1)

NoHabitsYet  == <<"no habits yet">>
NoRecentData == <<"no recent habit data">>

\* habit_summary of build_personal_context
habit_summary(uid) ==
    LET df == get_habit_logs(uid, HabitDays)
        rates == RateItems(Last7Rows(df), 1)
    IN IF df # <<>>
       THEN (IF rates # <<>> THEN Join(rates, <<", ">>) ELSE NoRecentData)
       ELSE NoHabitsYet

(***************************************************************************)
(* Texts.                                                                  *)
(***************************************************************************)
White == {" ", "\n"}

RECURSIVE LStrip(_)
LStrip(t) == IF t # <<>> /\ Head(t) \in White THEN LStrip(Tail(t)) ELSE t

RECURSIVE RStrip(_)
RStrip(t) ==
    IF t # <<>> /\ t[Len(t)] \in White THEN RStrip(SubSeq(t, 1, Len(t) - 1)) ELSE t

\* str.strip()
Strip(t) == RStrip(LStrip(t))

Reverse(s) == [i \in 1..Len(s) |-> s[Len(s) + 1 - i]]

Min(a, b) == IF a <= b THEN a ELSE b

(***************************************************************************)
(* The context builder's journal section.                                  *)
(***************************************************************************)
JournalDays == 7       \* get_journals(user_id, days_back=7)
SnippetMax  == 220     \* if len(snippet) > 220

\* a timestamp (the isoformat string "<date>T<time>") is <<day, time of day>>;
\* the strings compare as the pairs do
AtOrAfter(t, since) == t[1] > since[1] \/ (t[1] = since[1] /\ t[2] >= since[2])

RECURSIVE InsertDesc(_, _)
\* a row put into a sequence ordered by created_at DESC
InsertDesc(row, sorted) ==
    IF sorted = <<>> THEN <<row>>
    ELSE IF AtOrAfter(row.created_at, sorted[1].created_at) THEN <<row>> \o sorted
    ELSE <<sorted[1]>> \o InsertDesc(row, Tail(sorted))

RECURSIVE OrderDesc(_)
\* ORDER BY created_at DESC
OrderDesc(rows) ==
    IF rows = <<>> THEN <<>> ELSE InsertDesc(rows[1], OrderDesc(Tail(rows)))

\* add_journal: INSERT INTO journals, created_at = utcnow().isoformat()
add_journal(uid, entry) ==
    Append(journals, [user_id |-> uid, entry |-> entry, created_at |-> <<today, tod>>])

\* get_journals: the user's entries with created_at >= utcnow() - days_back days,
\* newest first
get_journals(uid, days_back) ==
    OrderDesc(SelectSeq(journals,
        LAMBDA j : j.user_id = uid /\ AtOrAfter(j.created_at, <<today - days_back, tod>>)))

\* if len(snippet) >= 220: snippet = snippet[:220] + "..."
TruncateAtOrOver(flat) ==
    IF Len(flat) >= SnippetMax THEN SubSeq(flat, 1, SnippetMax) \o <<"...">> ELSE flat

\* if len(snippet) > 220: snippet = snippet[:220] + "..."
Truncate(flat) ==
    IF Len(flat) > SnippetMax THEN SubSeq(flat, 1, SnippetMax) \o <<"...">> ELSE flat

\* entry.strip().replace("\n", " "), cut to 220 characters plus "..."
Snippet(entry) ==
    LET s == Strip(entry)
        flat == [i \in 1..Len(s) |-> IF s[i] = "\n" THEN " " ELSE s[i]]
    IN Truncate(flat)

\* journal_points: "[<day>] <snippet>", day = created_at.split("T")[0]
journal_points(uid) ==
    LET js == get_journals(uid, JournalDays)
    IN [i \in 1..Len(js) |->
           <<"[", ToString(js[i].created_at[1]), "] ">> \o Snippet(js[i].entry)]

\* build_personal_context
build_personal_context(uid) ==
    <<"Recent Journals:\n- ">>
    \o (IF journal_points(uid) # <<>>
        THEN Join(journal_points(uid), <<"\n- ">>)
        ELSE <<"no journal entries">>)
    \o <<"\n\nHabit Adherence (last 7 days): ">>
    \o habit_summary(uid)

(***************************************************************************)
(* Chat.                                                                   *)
(***************************************************************************)
AskLimit  == 10      \* history = load_recent_chat(user_id, limit=10)
ShowLimit == 8       \* load_recent_chat(user.id, limit=8)

\* save_chat: INSERT INTO chats
save_chat_replacing(tbl, uid, role, content) ==
    Append(SelectSeq(tbl, LAMBDA r : r.user_id # uid \/ r.role # role),
           [user_id |-> uid, role |-> role, content |-> content])
save_chat(tbl, uid, role, content) ==
    Append(tbl, [user_id |-> uid, role |-> role, content |-> content])

\* the (role, content) pairs fetched by
\* SELECT role, content FROM chats WHERE user_id=:uid ORDER BY id DESC LIMIT :lim
FetchRecent(tbl, uid, limit) ==
    LET desc == Reverse(SelectSeq(tbl, LAMBDA r : r.user_id = uid))
        rows == SubSeq(desc, 1, Min(limit, Len(desc)))
    IN [i \in 1..Len(rows) |-> <<rows[i].role, rows[i].content>>]

\* load_recent_chat: list(reversed(rows))
NotReversed(rows) == rows
Chronological(rows) == Reverse(rows)

load_recent_chat(tbl, uid, limit) == Chronological(FetchRecent(tbl, uid, limit))

Persona == <<"You are MindMate, a friendly and empathetic wellness companion. ...">>
ContextLabel == <<"User personal context:\n">>
NoKeyMessage == <<"OpenAI API key not set. Please configure your .env.">>

\* the messages ask_ai builds before calling the collaborator
HistoryMessages(history) ==
    [i \in 1..Len(history) |-> [role |-> history[i][1], content |-> history[i][2]]]

ask_ai_messages_context_last(tbl, uid, text) ==
    << [role |-> "system", content |-> Persona] >>
    \o HistoryMessages(load_recent_chat(tbl, uid, AskLimit))
    \o << [role |-> "system", content |-> ContextLabel \o build_personal_context(uid)],
          [role |-> "user", content |-> text] >>
ask_ai_messages(tbl, uid, text) ==
    << [role |-> "system", content |-> Persona],
       [role |-> "system", content |-> ContextLabel \o build_personal_context(uid)] >>
    \o HistoryMessages(load_recent_chat(tbl, uid, AskLimit))
    \o << [role |-> "user", content |-> text] >>

(***************************************************************************)
(* Initial values, by group of variables.                                  *)
(***************************************************************************)
UserInit   == users = <<>> /\ signup_msg = <<>>
HabitInit  == habits = <<>> /\ habit_logs = <<>> /\ today = 0 /\ latest = <<>>
IdleArgs   == [hid |-> 0, d |-> 0, c |-> FALSE, raced |-> FALSE]
ToggleInit ==
    /\ tpc = [p \in Callers |-> "idle"]
    /\ targs = [p \in Callers |-> IdleArgs]
    /\ rowcount = [p \in Callers |-> 0]
    /\ writer = 0
    /\ lastdone = <<>>
RateInit   == grp = <<>> /\ rate = <<>>
JournalInit == journals = <<>> /\ tod = 0
ChatIdle   ==
    /\ cpc = "idle" /\ cur_user = 0 /\ user_text = <<>> /\ messages = NULL
    /\ reply = NULL /\ shown = NULL /\ outcome = NULL /\ nturns = 0
ChatInit   == chats = <<>> /\ chats0 = <<>> /\ client = "ok" /\ ChatIdle

\* history: the value of the last committed toggle of each (habit_id, log_date),
\* and whether the pair was toggled more than once
Record(hid, d, c) ==
    [p \in DOMAIN latest \cup {<<hid, d>>} |->
        IF p = <<hid, d>>
        THEN [value |-> Bit(c), again |-> <<hid, d>> \in DOMAIN latest]
        ELSE latest[p]]

(***************************************************************************)
(* toggle_habit_for_date called directly, one call at a time.              *)
(***************************************************************************)
Toggle(hid, d, c) ==
    /\ Len(toggle_habit_for_date(habit_logs, hid, d, c)) <= MaxLogs
    /\ habit_logs' = toggle_habit_for_date(habit_logs, hid, d, c)
    /\ latest' = Record(hid, d, c)
    /\ UNCHANGED <<habits, today, userVars, toggleVars, chatVars, rateVars, journalVars>>

(***************************************************************************)
(* The habits tab (habits_tab), one session at a time.                     *)
(***************************************************************************)
\* "Add Habit" with a non-blank name
AddHabit(uid, name) ==
    /\ Len(habits) < MaxHabits
    /\ habits' = create_habit(uid, name)
    /\ UNCHANGED <<habit_logs, today, latest, userVars, toggleVars, chatVars, rateVars, journalVars>>

\* "Save '<name>'" of one of the user's habits, with the checkbox at done
SaveHabit(uid, hid, done) ==
    /\ hid \in list_habits(uid)
    /\ Len(toggle_habit_for_date(habit_logs, hid, today, done)) <= MaxLogs
    /\ habit_logs' = toggle_habit_for_date(habit_logs, hid, today, done)
    /\ UNCHANGED <<habits, today, latest, userVars, toggleVars, chatVars, rateVars, journalVars>>

\* days pass between two requests
Tick ==
    /\ \E d \in (today + 1)..MaxDay : today' = d
    /\ UNCHANGED <<habits, habit_logs, latest, userVars, toggleVars, chatVars, rateVars, journalVars>>

(***************************************************************************)
(* toggle_habit_for_date called by two sessions at once, statement by      *)
(* statement.  Each call runs in its own connection inside                 *)
(* "with eng.begin()": the sqlite3 driver opens the transaction at the     *)
(* first write statement, the UPDATE, which takes the database's write     *)
(* lock and holds it until COMMIT.  A second connection's UPDATE waits for *)
(* the lock (busy timeout) and raises OperationalError if it expires.      *)
(***************************************************************************)
Other(p) == CHOOSE q \in Callers : q # p

\* the UPDATE can start its write transaction
LockFreeIgnored(p) == TRUE
LockFree(p) == writer = 0

\* the call is made; nothing has been executed yet
ToggleCall(p, hid, c) ==
    /\ tpc[p] = "idle"
    /\ tpc' = [tpc EXCEPT ![p] = "begun"]
    /\ targs' = [targs EXCEPT ![p] =
            [hid |-> hid, d |-> today, c |-> c,
             raced |-> /\ tpc[Other(p)] \in {"updated", "inserted"}
                       /\ targs[Other(p)].hid = hid
                       /\ targs[Other(p)].c # c]]
    /\ UNCHANGED <<rowcount, writer, lastdone, habitVars, userVars, chatVars, rateVars, journalVars>>

\* UPDATE habit_logs ... ; updated.rowcount
ToggleUpdate(p) ==
    /\ tpc[p] = "begun"
    /\ LockFree(p)
    /\ writer' = p
    /\ habit_logs' = UpdateLogs(habit_logs, targs[p].hid, targs[p].d, Bit(targs[p].c))
    /\ rowcount' = [rowcount EXCEPT ![p] = UpdateCount(habit_logs, targs[p].hid, targs[p].d)]
    /\ tpc' = [tpc EXCEPT ![p] = "updated"]
    /\ UNCHANGED <<targs, lastdone, habits, today, latest, userVars, chatVars, rateVars, journalVars>>

\* if updated.rowcount == 0: INSERT OR IGNORE ...
ToggleInsert(p) ==
    /\ tpc[p] = "updated"
    /\ rowcount[p] = 0
    /\ habit_logs' = InsertOrIgnore(habit_logs, targs[p].hid, targs[p].d, Bit(targs[p].c))
    /\ tpc' = [tpc EXCEPT ![p] = "inserted"]
    /\ UNCHANGED <<targs, rowcount, writer, lastdone, habits, today, latest,
                   userVars, chatVars, rateVars, journalVars>>

\* leaving "with eng.begin()": COMMIT, and the call returns
ToggleCommit(p) ==
    /\ \/ tpc[p] = "inserted"
       \/ tpc[p] = "updated" /\ rowcount[p] # 0
    /\ writer' = 0
    /\ latest' = Record(targs[p].hid, targs[p].d, targs[p].c)
    /\ lastdone' = << [caller |-> p, hid |-> targs[p].hid, d |-> targs[p].d,
                       c |-> targs[p].c, raced |-> targs[p].raced,
                       outcome |-> "returned"] >>
    /\ tpc' = [tpc EXCEPT ![p] = "idle"]
    /\ targs' = [targs EXCEPT ![p] = IdleArgs]
    /\ rowcount' = [rowcount EXCEPT ![p] = 0]
    /\ UNCHANGED <<habits, habit_logs, today, userVars, chatVars, rateVars, journalVars>>

\* the UPDATE waited for the write lock longer than the busy timeout:
\* OperationalError (database is locked) leaves the call
ToggleBusy(p) ==
    /\ tpc[p] = "begun"
    /\ ~LockFree(p)
    /\ lastdone' = << [caller |-> p, hid |-> targs[p].hid, d |-> targs[p].d,
                       c |-> targs[p].c, raced |-> targs[p].raced,
                       outcome |-> "raised"] >>
    /\ tpc' = [tpc EXCEPT ![p] = "idle"]
    /\ targs' = [targs EXCEPT ![p] = IdleArgs]
    /\ UNCHANGED <<rowcount, writer, habitVars, userVars, chatVars, rateVars, journalVars>>

(***************************************************************************)
(* The chat tab (chat_tab and ask_ai), one session at a time.              *)
(***************************************************************************)
\* what the text area can hold when Send is pressed
RawTexts == { <<>>, <<" ">>, <<"a">>, <<" ", "a", "\n">> }

\* module level: client = OpenAI(api_key=...) if OPENAI_API_KEY else None,
\* and None when the import or the constructor raises
ClientSetups == {"ok", "no_key", "import_error"}
ClientIsNone == client # "ok"

\* what client.chat.completions.create(...) and reading the response can do
ApiErrors == {"APIConnectionError", "AuthenticationError", "RateLimitError"}
MalformedErrors == {"IndexError", "AttributeError"}
    \* resp.choices[0] of no choice; .strip() of a None content
Outcomes ==
    {[kind |-> "reply", content |-> <<" ", "c", "\n">>]}
    \cup {[kind |-> "raise", cls |-> e] : e \in ApiErrors \cup MalformedErrors}

\* except Exception as e: every class above derives from Exception
CatchesApiOnly(cls) == cls \in ApiErrors
Catches(cls) == cls \in ApiErrors \cup MalformedErrors

\* the try block of ask_ai: <<value>> returned, or NULL when the exception leaves ask_ai
ask_ai_return(o) ==
    IF o.kind = "reply" THEN Some(Strip(o.content))
    ELSE IF Catches(o.cls) THEN Some(<<"AI error: ", o.cls>>)
    ELSE NULL

\* Send with a non-blank message: save_chat(user), then ask_ai up to the call
Send(uid, raw) ==
    /\ cpc = "idle"
    /\ nturns < MaxTurns
    /\ Strip(raw) # <<>>
    /\ LET text == Strip(raw)
           tbl == save_chat(chats, uid, "user", text)
       IN /\ chats' = tbl
          /\ chats0' = chats
          /\ cur_user' = uid
          /\ user_text' = text
          /\ IF ClientIsNone \/ client = "no_key"
             THEN messages' = NULL /\ reply' = Some(NoKeyMessage) /\ cpc' = "returned"
             ELSE /\ messages' = Some(ask_ai_messages(tbl, uid, text))
                  /\ reply' = NULL
                  /\ cpc' = "calling"
    /\ shown' = NULL
    /\ outcome' = NULL
    /\ nturns' = nturns + 1
    /\ UNCHANGED <<client, userVars, habitVars, toggleVars, rateVars, journalVars>>

\* the collaborator answers or fails, and ask_ai returns
Collaborate(o) ==
    /\ cpc = "calling"
    /\ outcome' = Some(o)
    /\ reply' = ask_ai_return(o)
    /\ cpc' = IF ask_ai_return(o) = NULL THEN "crashed" ELSE "returned"
    /\ UNCHANGED <<chats, client, cur_user, user_text, messages, shown, chats0, nturns,
                   userVars, habitVars, toggleVars, rateVars, journalVars>>

\* save_chat(user.id, "assistant", reply)
SaveReply ==
    /\ cpc = "returned"
    /\ chats' = save_chat(chats, cur_user, "assistant", reply[1])
    /\ cpc' = "saved"
    /\ UNCHANGED <<client, cur_user, user_text, messages, reply, shown, chats0, outcome,
                   nturns, userVars, habitVars, toggleVars, rateVars, journalVars>>

\* st.markdown("**Assistant:** " + reply), then the recent conversation is listed
ShowReply ==
    /\ cpc = "saved"
    /\ shown' = Some([reply |-> <<"**Assistant:** ">> \o reply[1],
                      recent |-> load_recent_chat(chats, cur_user, ShowLimit)])
    /\ cpc' = "idle"
    /\ UNCHANGED <<chats, client, cur_user, user_text, messages, reply, chats0, outcome,
                   nturns, userVars, habitVars, toggleVars, rateVars, journalVars>>

\* the chats table left by earlier runs: k turns of user 1
RECURSIVE PriorLog(_)
PriorLog(k) ==
    IF k = 0 THEN <<>>
    ELSE PriorLog(k - 1)
         \o << [user_id |-> 1, role |-> "user",
                content |-> IF k % 2 = 1 THEN <<"a">> ELSE <<"b">>],
               [user_id |-> 1, role |-> "assistant", content |-> <<"c">>] >>

InitChat ==
    /\ UserInit /\ ToggleInit /\ RateInit /\ JournalInit
    /\ habit_logs = <<>> /\ today = 0 /\ latest = <<>>
    /\ habits \in { <<>>, << [user_id |-> 1, name |-> "walk"] >> }
    /\ client \in ClientSetups
    /\ \E k \in 0..MaxPrior : chats = PriorLog(k) /\ chats0 = PriorLog(k)
    /\ ChatIdle

NextChat ==
    \/ \E uid \in UserIds, raw \in RawTexts : Send(uid, raw)
    \/ \E o \in Outcomes : Collaborate(o)
    \/ SaveReply
    \/ ShowReply

SpecChat == InitChat /\ [][NextChat]_vars

(***************************************************************************)
(* Sign up (signup_ui and register_user).                                  *)
(***************************************************************************)
Emails    == {"a@x", "b@x", "c@x"}
Usernames == {"ann", "bob", "cy"}
MinPassword == 6     \* if len(password) < 6

\* conn.execute(INSERT INTO users ...) under email TEXT UNIQUE, username TEXT UNIQUE:
\* NULL when the row is inserted, else <<class, str(e)>> of the exception raised
InsertUserError(tbl, e, u) ==
    IF \E i \in DOMAIN tbl : tbl[i].email = e
    THEN Some([cls |-> "IntegrityError",
               msg |-> <<"(sqlite3.IntegrityError) ", "UNIQUE constraint failed",
                         ": users.email">>])
    ELSE IF \E i \in DOMAIN tbl : tbl[i].username = u
    THEN Some([cls |-> "IntegrityError",
               msg |-> <<"(sqlite3.IntegrityError) ", "UNIQUE constraint failed",
                         ": users.username">>])
    ELSE NULL

\* except OperationalError: sqlalchemy's IntegrityError is not one
IsDatabaseError(cls) == cls \in {"OperationalError", "IntegrityError"}
IsOperationalError(cls) == cls = "OperationalError"

\* "UNIQUE constraint failed" in msg
HasUniqueFailed(msg) == \E i \in DOMAIN msg : msg[i] = "UNIQUE constraint failed"

\* register_user: [ok, msg, table]
register_user(tbl, e, u) ==
    LET err == InsertUserError(tbl, e, u)
    IN IF err = NULL
       THEN [ok |-> TRUE, msg |-> <<"Account created.">>,
             table |-> Append(tbl, [email |-> e, username |-> u])]
       ELSE IF IsOperationalError(err[1].cls)
       THEN [ok |-> FALSE, msg |-> <<"DB error: ">> \o err[1].msg, table |-> tbl]
       ELSE IF HasUniqueFailed(err[1].msg)
       THEN [ok |-> FALSE, msg |-> <<"Email or username already exists.">>, table |-> tbl]
       ELSE [ok |-> FALSE, msg |-> <<"Error: ">> \o err[1].msg, table |-> tbl]

\* "Sign Up" with a password of pwlen characters
SignUp(e, u, pwlen) ==
    /\ IF pwlen < MinPassword
       THEN /\ signup_msg' = Some([ok |-> FALSE, email |-> e, username |-> u,
                                   msg |-> <<"Password must be at least 6 characters.">>])
            /\ users' = users
       ELSE /\ signup_msg' = Some([ok |-> register_user(users, e, u).ok,
                                   email |-> e, username |-> u,
                                   msg |-> register_user(users, e, u).msg])
            /\ users' = register_user(users, e, u).table
    /\ UNCHANGED <<habitVars, toggleVars, chatVars, rateVars, journalVars>>

InitAll ==
    UserInit /\ HabitInit /\ ToggleInit /\ ChatInit /\ RateInit /\ JournalInit

NextSignup ==
    \E e \in Emails, u \in Usernames, pwlen \in {MinPassword - 1, MinPassword} :
        SignUp(e, u, pwlen)

SpecSignup == InitAll /\ [][NextSignup]_vars

(***************************************************************************)
(* The specifications of the habit log and of the habit section.           *)
(***************************************************************************)
NextUpsert ==
    \E hid \in 1..MaxHabits, d \in 0..MaxDate, c \in BOOLEAN : Toggle(hid, d, c)

SpecUpsert == InitAll /\ [][NextUpsert]_vars

NextToggle ==
    \/ \E p \in Callers, hid \in 1..MaxHabits, c \in BOOLEAN : ToggleCall(p, hid, c)
    \/ \E p \in Callers : ToggleUpdate(p)
    \/ \E p \in Callers : ToggleInsert(p)
    \/ \E p \in Callers : ToggleCommit(p)
    \/ \E p \in Callers : ToggleBusy(p)

SpecToggle == InitAll /\ [][NextToggle]_vars

NextContext ==
    \/ \E uid \in UserIds, k \in DOMAIN HabitNames : AddHabit(uid, HabitNames[k])
    \/ \E uid \in UserIds, hid \in 1..MaxHabits, done \in BOOLEAN : SaveHabit(uid, hid, done)
    \/ Tick

SpecContext == InitAll /\ [][NextContext]_vars

(***************************************************************************)
(* The rate of one habit-name group.                                       *)
(***************************************************************************)
\* the completed column of a group: NaN for a habit never logged, else 0 or 1
Columns == UNION {[1..n -> {NULL, Some(0), Some(1)}] : n \in 1..MaxGroup}

InitRate ==
    /\ UserInit /\ HabitInit /\ ToggleInit /\ ChatInit /\ JournalInit
    /\ grp \in Columns
    /\ rate = NULL

ComputeRate ==
    /\ rate = NULL
    /\ rate' = Some(GroupRate(grp))
    /\ UNCHANGED <<grp, userVars, habitVars, toggleVars, chatVars, journalVars>>

SpecRate == InitRate /\ [][ComputeRate]_vars

(***************************************************************************)
(* journal_tab: entries are saved while the clock runs.                    *)
(***************************************************************************)
MaxJournals == 2      \* rows of the journals table

\* a text of n characters with line breaks inside it
Long(n) == [i \in 1..n |-> IF i % 3 = 0 THEN "\n" ELSE "x"]

\* st.text_area("Write about your day:"): blank, short with a blank line,
\* exactly 220 characters, 221 characters
EntryTexts ==
    { <<" ", "\n">>,
      <<" ", "a", "\n", "\n", "b", "\n">>,
      Long(SnippetMax),
      Long(SnippetMax + 1) }

\* the time elapsed between two readings of the clock, in days, and the
\* day the run ends
Elapsed == {0, JournalDays, JournalDays + 1}
LastDay == 2 * JournalDays + 1
Times   == {0, 1}

\* journal_tab, "Save entry": if entry.strip(): add_journal(user.id, entry.strip())
\* (utcnow() has increased since the last saved entry)
SaveJournal(uid, raw) ==
    /\ Len(journals) < MaxJournals
    /\ Strip(raw) # <<>>
    /\ \A i \in DOMAIN journals : journals[i].created_at # <<today, tod>>
    /\ journals' = add_journal(uid, Strip(raw))
    /\ UNCHANGED <<tod, userVars, habitVars, toggleVars, chatVars, rateVars>>

\* datetime.utcnow() returns a later instant
Pass ==
    \E d \in Elapsed, t \in Times :
        /\ today + d <= LastDay
        /\ d > 0 \/ t > tod
        /\ today' = today + d
        /\ tod' = t
        /\ UNCHANGED <<journals, habits, habit_logs, latest, userVars, toggleVars,
                       chatVars, rateVars>>

NextJournal ==
    \/ \E uid \in UserIds, raw \in EntryTexts : SaveJournal(uid, raw)
    \/ Pass

SpecJournal == InitAll /\ [][NextJournal]_vars

(***************************************************************************)
(* The habit log.                                                          *)
(***************************************************************************)
RowsOf(hid, d) ==
    {i \in DOMAIN habit_logs : habit_logs[i].habit_id = hid /\ habit_logs[i].log_date = d}

\* C1: after any sequence of toggle_habit_for_date calls made one at a time from an
\* empty habit_logs, every (habit_id, log_date) pair has at most one row, a pair
\* that was toggled has exactly one, and that row holds the value of the pair's
\* most recent call.
C1_OneRowLatestValue ==
    /\ \A hid \in 1..MaxHabits, d \in 0..MaxDate : Cardinality(RowsOf(hid, d)) <= 1
    /\ \A p \in DOMAIN latest :
          /\ Cardinality(RowsOf(p[1], p[2])) = 1
          /\ \A i \in RowsOf(p[1], p[2]) : habit_logs[i].completed = latest[p].value
    /\ \A i \in DOMAIN habit_logs :
          <<habit_logs[i].habit_id, habit_logs[i].log_date>> \in DOMAIN latest

\* C1's case: a pair toggled twice, the second call changing the value of its row,
\* beside the row of another pair
C1_Witness ==
    \E p \in DOMAIN latest :
        /\ latest[p].again
        /\ latest[p].value = 0
        /\ \E i \in RowsOf(p[1], p[2]) : habit_logs[i].completed = 0
        /\ \E q \in DOMAIN latest : q # p /\ latest[q].value = 1

LogOf(tbl, uid) == SelectSeq(tbl, LAMBDA r : r.user_id = uid)

\* the last min(N, Len(log)) rows of a log, in the log's order, as (role, content)
LastOf(log, N) ==
    LET k == IF N <= Len(log) THEN N ELSE Len(log)
    IN [i \in 1..k |-> <<log[Len(log) - k + i].role, log[Len(log) - k + i].content>>]

\* C3: for every user and every limit N >= 1, load_recent_chat(user, N) is exactly
\* the min(N, count) most recently inserted messages of that user, oldest first,
\* each with its role and content.
C3_RecentChronological ==
    \A u \in UserIds, N \in 1..MaxLimit :
        load_recent_chat(chats, u, N) = LastOf(LogOf(chats, u), N)

\* C3's case: ask_ai has loaded the history of a user who has more than AskLimit
\* messages, of both roles, while another user has messages too
C3_Witness ==
    /\ cpc = "calling"
    /\ Len(LogOf(chats, cur_user)) > AskLimit
    /\ \E r \in Range(chats) : r.user_id # cur_user
    /\ \E i \in 3..(AskLimit + 1) :
          messages[1][i].role = "user" /\ messages[1][i + 1].role = "assistant"

\* C4: the sequence ask_ai hands to the collaborator is the persona system message,
\* one system message holding the labeled output of build_personal_context, the
\* retained history (the user's last min(AskLimit, count) stored messages, oldest
\* first, roles kept), and the new user message last; two system messages in all.
C4_MessageShape ==
    cpc = "calling" =>
        LET m == messages[1]
            n == Len(m)
            mine == LogOf(chats, cur_user)
            k == Min(AskLimit, Len(mine))
        IN /\ n = k + 3
           /\ m[1] = [role |-> "system", content |-> Persona]
           /\ m[2].role = "system"
           /\ SubSeq(m[2].content, 1, Len(ContextLabel)) = ContextLabel
           /\ SubSeq(m[2].content, Len(ContextLabel) + 1, Len(m[2].content))
                 = build_personal_context(cur_user)
           /\ \A i \in 1..k :
                 m[2 + i] = [role |-> mine[Len(mine) - k + i].role,
                             content |-> mine[Len(mine) - k + i].content]
           /\ m[n] = [role |-> "user", content |-> user_text]
           /\ Cardinality({i \in 1..n : m[i].role = "system"}) = 2

\* C4's case: a sequence handed over with a full history and a context that
\* reports a habit
C4_Witness ==
    /\ cpc = "calling"
    /\ Len(messages[1]) = AskLimit + 3
    /\ habit_summary(cur_user) \notin {NoHabitsYet, NoRecentData}

\* C5: the history portion of the sequence handed to the collaborator holds only
\* messages stored before this turn's user message (the last min(AskLimit, count)
\* of them), and the new user message comes after it, once, as the last element.
C5_HistoryIsPrior ==
    cpc = "calling" =>
        LET m == messages[1]
            prior == LogOf(chats0, cur_user)
            k == Min(AskLimit, Len(prior))
        IN /\ Len(m) = k + 3
           /\ \A i \in 1..k :
                 m[2 + i] = [role |-> prior[Len(prior) - k + i].role,
                             content |-> prior[Len(prior) - k + i].content]
           /\ m[Len(m)] = [role |-> "user", content |-> user_text]

\* C6: a chat turn with a non-blank message appends exactly two rows to the chats
\* table, the user's message and then the assistant's reply, both of the turn's
\* user; both are stored when the reply is displayed, and no earlier row (of this
\* or of another user) is changed or removed.
C6_TurnAppendsTwo ==
    /\ cpc \in {"calling", "returned"} =>
          chats = Append(chats0, [user_id |-> cur_user, role |-> "user",
                                  content |-> user_text])
    /\ (cpc = "saved" \/ shown # NULL) =>
          /\ reply # NULL
          /\ chats = chats0 \o
                << [user_id |-> cur_user, role |-> "user", content |-> user_text],
                   [user_id |-> cur_user, role |-> "assistant", content |-> reply[1]] >>

\* C6's case: the collaborator's reply is displayed in the second turn of a run,
\* after a turn of the other user
C6_Witness ==
    /\ shown # NULL
    /\ outcome # NULL
    /\ outcome[1].kind = "reply"
    /\ shown[1].reply = <<"**Assistant:** ", "c">>
    /\ \E r \in Range(chats0) : r.user_id # cur_user
    /\ \E r \in Range(chats0) : r.user_id = cur_user

\* C7: no failure of the collaborator leaves ask_ai as an exception: a missing key
\* or client gives the configuration message without any call, every exception of
\* the call or of reading the response gives an "AI error: ..." string, and the
\* turn goes on with that string (it is never left by an exception).
C7_NeverRaises ==
    /\ cpc # "crashed"
    /\ (cpc \in {"returned", "saved"} /\ client # "ok") =>
          reply = Some(NoKeyMessage) /\ messages = NULL
    /\ (cpc \in {"returned", "saved"} /\ outcome # NULL /\ outcome[1].kind = "raise") =>
          reply = Some(<<"AI error: ", outcome[1].cls>>)
    /\ cpc \in {"returned", "saved"} => reply # NULL
    /\ cpc \in {"idle", "calling", "returned", "saved"}

\* C7's case: a turn is accepted after a turn whose response was malformed
C7_Witness ==
    /\ cpc = "calling"
    /\ chats0 # <<>>
    /\ chats0[Len(chats0)].role = "assistant"
    /\ chats0[Len(chats0)].content = <<"AI error: ", "IndexError">>

(***************************************************************************)
(* Sign up.                                                                *)
(***************************************************************************)
Taken(e, u) == \E i \in DOMAIN users : users[i].email = e \/ users[i].username = u

AlreadyExists == <<"Email or username already exists.">>

\* C8: register_user with an email or a username that a row of users already has
\* returns (False, "Email or username already exists.") and leaves users as it
\* was; hence no two rows of users ever share an email or a username.
C8_DuplicateRejected ==
    /\ [](\A i, j \in DOMAIN users :
            i # j => users[i].email # users[j].email
                     /\ users[i].username # users[j].username)
    /\ [][\A e \in Emails, u \in Usernames :
            (Taken(e, u) /\ SignUp(e, u, MinPassword)) =>
                /\ users' = users
                /\ signup_msg' = Some([ok |-> FALSE, email |-> e, username |-> u,
                                       msg |-> AlreadyExists])]_vars

\* C8's case: a sign-up with a new email and the username of an existing row was
\* answered "already exists", with two rows in users
C8_Witness ==
    /\ Len(users) = 2
    /\ signup_msg # NULL
    /\ signup_msg[1].msg = AlreadyExists
    /\ \A i \in DOMAIN users : users[i].email # signup_msg[1].email
    /\ \E i \in DOMAIN users : users[i].username = signup_msg[1].username

(***************************************************************************)
(* The habit section of the context.                                       *)
(***************************************************************************)
\* 100 * c / n rounded to the nearest integer, a tie upwards
HalfUp(a, b) == (2 * a + b) \div (2 * b)

Ones(col) == Cardinality({i \in DOMAIN col : col[i] = Some(1)})

\* C9: for a habit-name group of n >= 1 rows of which c are completed (a null
\* completed counted as not completed), the rate reported is 100*c/n rounded
\* half-up: 0 for c = 0, 100 for c = n, 33 for c = 1 of n = 3, 13 for c = 1 of n = 8.
C9_RateHalfUp ==
    rate # NULL => rate[1] = HalfUp(100 * Ones(grp), Len(grp))

\* the user's habits that have a row in the 7-day filter: never logged, or logged
\* within the last RateDays days
Surviving(uid) ==
    {h \in list_habits(uid) :
        \/ \A i \in DOMAIN habit_logs : habit_logs[i].habit_id # h
        \/ \E i \in DOMAIN habit_logs :
              habit_logs[i].habit_id = h /\ habit_logs[i].log_date >= today - RateDays}

\* C10: the habit section is "no habits yet" exactly when the user owns no habit,
\* "no recent habit data" exactly when the user owns a habit but none has a row in
\* the 7-day filter, and otherwise a non-empty list of "name: rate%" items.
C10_HabitPlaceholders ==
    \A uid \in UserIds :
        /\ habit_summary(uid) = NoHabitsYet <=> list_habits(uid) = {}
        /\ habit_summary(uid) = NoRecentData <=>
               (list_habits(uid) # {} /\ Surviving(uid) = {})
        /\ (list_habits(uid) # {} /\ Surviving(uid) # {}) =>
               /\ Len(habit_summary(uid)) >= 4
               /\ habit_summary(uid)[1] \in {habits[h].name : h \in Surviving(uid)}
               /\ habit_summary(uid)[2] = ": "
               /\ habit_summary(uid)[4] = "%"

(***************************************************************************)
(* The journal section of the personal context.                            *)
(***************************************************************************)
JournalHeader == <<"Recent Journals:\n- ">>
HabitHeader   == <<"\n\nHabit Adherence (last 7 days): ">>

\* the part of the context between the two headers
JournalSection(uid) ==
    LET ctx == build_personal_context(uid)
        k   == CHOOSE i \in DOMAIN ctx : <<ctx[i]>> = HabitHeader
    IN SubSeq(ctx, 2, k - 1)

\* the bullets of a section, which "\n- " separates
BulletsOf(sec) ==
    LET seps   == {i \in DOMAIN sec : sec[i] = "\n- "}
        starts == {0} \cup seps
        ends   == seps \cup {Len(sec) + 1}
        nth(k) == CHOOSE c \in starts : Cardinality({x \in starts : x < c}) = k - 1
    IN [k \in 1..Cardinality(starts) |->
           SubSeq(sec, nth(k) + 1,
                  (CHOOSE e \in ends : e > nth(k) /\ \A x \in ends : x > nth(k) => e <= x) - 1)]

\* the entries of the user created within the last JournalDays days
InWindow(uid) ==
    {i \in DOMAIN journals :
        /\ journals[i].user_id = uid
        /\ \/ journals[i].created_at[1] > today - JournalDays
           \/ /\ journals[i].created_at[1] = today - JournalDays
              /\ journals[i].created_at[2] >= tod}

\* the entry text, every line break of it turned into one space
Collapsed(entry) == [i \in DOMAIN entry |-> IF entry[i] = "\n" THEN " " ELSE entry[i]]

\* the bullet the entry is to have
BulletFor(j) ==
    LET text == Collapsed(j.entry)
    IN <<"[", ToString(j.created_at[1]), "] ">>
       \o (IF Len(text) <= SnippetMax THEN text
           ELSE [i \in 1..SnippetMax |-> text[i]] \o <<"...">>)

\* C11: in build_personal_context, the journal section has one bullet for every
\* entry of the user in the 7-day lookback window and no other; the bullet of an
\* entry is its calendar date followed by the entry text with every line break
\* turned into one space, whole when that text has at most 220 characters and
\* otherwise its first 220 characters followed by "..."; when the window holds
\* no entry the section is exactly "no journal entries".
C11_JournalBullets ==
    \A u \in UserIds :
        LET ctx  == build_personal_context(u)
            sec  == JournalSection(u)
            buls == BulletsOf(sec)
        IN /\ <<ctx[1]>> = JournalHeader
           /\ \E i \in DOMAIN ctx : <<ctx[i]>> = HabitHeader
           /\ IF InWindow(u) = {}
              THEN sec = <<"no journal entries">>
              ELSE /\ Len(buls) = Cardinality(InWindow(u))
                   /\ Range(buls) = {BulletFor(journals[i]) : i \in InWindow(u)}

\* a user has an entry of more than 220 characters inside the window, cut in the
\* context, and an entry that has left the window; the other user has none
C11_Witness ==
    \E u \in UserIds, i \in DOMAIN journals, o \in DOMAIN journals :
        /\ i \in InWindow(u)
        /\ Len(journals[i].entry) > SnippetMax
        /\ journals[o].user_id = u /\ o \notin InWindow(u)
        /\ \E k \in DOMAIN BulletsOf(JournalSection(u)) :
               LET b == BulletsOf(JournalSection(u))[k]
               IN b[Len(b)] = "..." /\ Len(b) = SnippetMax + 4
        /\ \E v \in UserIds : JournalSection(v) = <<"no journal entries">>
====
